---- MODULE Spec2Model ----
(***************************************************************************)
(* Model of the Telegram channel trading agent: the polling ingestion loop *)
(* of ChannelParser, the HandlerStats/safe_handler wrapper, and the        *)
(* TradingStrategy execution engine on top of BybitExchange.               *)
(***************************************************************************)
EXTENDS Integers, Sequences, FiniteSets, TLC

(* ---------------------------------------------------------------------- *)
(* Bounds of the model                                                     *)
(* ---------------------------------------------------------------------- *)
MaxPre == 11       \* most messages the channel holds when the process starts
MaxPosts == 2      \* most messages posted while the process runs
MaxDeletes == 2    \* most messages deleted from the channel while it runs
DeleteDepth == 2   \* a deleted message is one of the DeleteDepth newest
MaxCalls == 6      \* most safe_handler invocations in the wrapper harness

(* ---------------------------------------------------------------------- *)
(* Program constants                                                       *)
(* ---------------------------------------------------------------------- *)
POLL_LIMIT == 10

VARIABLES
    channel,              \* identifiers of the messages the channel holds now
    nextId,               \* identifier the next posted message will get
    nDeletes,             \* number of deletions so far
    preStart,             \* identifiers that existed when the process started
    seeded,               \* identifiers put into processed_ids by _init_processed_ids
    messages,             \* result of get_messages in the current poll cycle
    pc,                   \* position of main / the polling task
    processed_ids,        \* ChannelParser.processed_ids
    pending,              \* rest of reversed(new_messages) of the current cycle
    cur,                  \* message being handled by _handle_message (0: none)
    message_text,         \* text of that message
    stages,               \* pipeline stages the current _handle_message run entered
    dispatched,           \* identifiers passed to _handle_message, in order
    cancelSent,           \* a cancellation was delivered to the polling task
    in_flight,            \* messages whose _handle_message run has begun and not ended
    handler_stats,        \* the module-level HandlerStats instance
    min_order_qty_cache,  \* TradingStrategy.min_order_qty_cache
    ai_response,          \* label classify() returned in the current run
    signal,               \* result of parse() in the current run
    responses,            \* responses of the exchange in the current run
    calls,                \* exchange calls made by process_signal in the current run
    outcome,              \* how the current _handle_message run ended
    connection_state,     \* ChannelParser._connection_state
    mon,                  \* the monitor task: running, its last sample and what it logged
    router_client,        \* OpenRouterClient.client: "none" or "ready"
    started,              \* the startup steps main() has completed, in order
    wcalls,               \* safe_handler invocations so far (wrapper harness)
    recorded,             \* the record_success / record_failure calls so far, in order
    wlast                 \* handler outcome and wrapper outcome of the last invocation

vars == <<channel, nextId, nDeletes, preStart, seeded, messages, pc, processed_ids, pending, cur, message_text,
          stages, dispatched, cancelSent, in_flight, handler_stats, min_order_qty_cache,
          ai_response, signal, responses, calls, outcome, connection_state,
          mon, router_client, started, wcalls, recorded, wlast>>

(* ---------------------------------------------------------------------- *)
(* Sequences and sets                                                      *)
(* ---------------------------------------------------------------------- *)
SetMax(S) == CHOOSE x \in S : \A y \in S : y <= x

RECURSIVE TopDesc(_, _)
TopDesc(S, n) ==
    IF n = 0 \/ S = {} THEN <<>>
    ELSE <<SetMax(S)>> \o TopDesc(S \ {SetMax(S)}, n - 1)

Reverse(s) == [i \in 1..Len(s) |-> s[Len(s) + 1 - i]]

Range(s) == {s[i] : i \in 1..Len(s)}

Count(s, x) == Cardinality({i \in 1..Len(s) : s[i] = x})

(* ---------------------------------------------------------------------- *)
(* Exceptions and the except clauses of each layer                         *)
(* ---------------------------------------------------------------------- *)
NoExc == "none"
Exc == "Exception"
Cancelled == "CancelledError"

\* classifier.classify: "except Exception: log; raise"; variant: the
\* exception is logged and not raised again
ClassifyExceptSwallow(e) == IF e = Exc THEN NoExc ELSE e
ClassifyExcept(e) == e

\* TradingStrategy.process_signal: "except Exception: log"; variant: no
\* handler
ProcessSignalExceptNoCatch(e) == e
ProcessSignalExcept(e) == IF e = Exc THEN NoExc ELSE e

\* ChannelParser._handle_message: "except CancelledError: raise / except Exception: log"
\* variants: a bare "except:" that swallows everything, and no handler at all
HandleMessageExceptSwallowAll(e) == NoExc
HandleMessageExceptNoCatch(e) == e
HandleMessageExcept(e) ==
    IF e = Cancelled THEN Cancelled
    ELSE IF e = Exc THEN NoExc
    ELSE e

\* variant: the inner try of the while body catches nothing
PollInnerExceptNoCatch(e) == e

\* ChannelParser._polling_loop, inner try of the while body
PollInnerExcept(e) ==
    IF e = Cancelled THEN Cancelled
    ELSE IF e = Exc THEN NoExc
    ELSE e

\* ChannelParser.start, try around _init_processed_ids: logs and re-raises;
\* variant: logs and goes on
StartExceptSwallow(e) == IF e = Exc THEN NoExc ELSE e
StartExcept(e) == e

\* ChannelParser._polling_loop, outer try around the while loop
PollOuterExcept(e) == e

\* where the polling task is after e was raised at the sleep of the loop
AfterSleepRaise(e) ==
    IF PollOuterExcept(e) = Cancelled THEN "cancelled" ELSE "crashed"

\* where the polling task is after e was raised in the loop body
AfterBodyRaise(e) ==
    IF PollInnerExcept(e) = NoExc THEN "sleep"
    ELSE AfterSleepRaise(PollInnerExcept(e))

\* where the polling task is after e was raised inside _handle_message
AfterHandlerRaise(e) ==
    IF HandleMessageExcept(e) = NoExc THEN "returned"
    ELSE AfterBodyRaise(HandleMessageExcept(e))

(* ---------------------------------------------------------------------- *)
(* HandlerStats and safe_handler                                           *)
(* ---------------------------------------------------------------------- *)
HandlerStats == [total_processed |-> 0, successful |-> 0, failed |-> 0,
                 consecutive_failures |-> 0]

\* variant: a success leaves consecutive_failures as it is
record_successNoReset(s) ==
    [s EXCEPT !.total_processed = @ + 1, !.successful = @ + 1]

record_success(s) ==
    [s EXCEPT !.total_processed = @ + 1, !.successful = @ + 1,
              !.consecutive_failures = 0]

record_failure(s) ==
    [s EXCEPT !.total_processed = @ + 1, !.failed = @ + 1,
              !.consecutive_failures = @ + 1]

\* variant: the failure is counted and raised again
safe_handlerReraise(s, e) ==
    IF e = NoExc THEN [stats |-> record_success(s), raises |-> NoExc]
    ELSE IF e = Cancelled THEN [stats |-> s, raises |-> Cancelled]
    ELSE [stats |-> record_failure(s), raises |-> Exc]

\* safe_handler.wrapper around a handler whose outcome is e: the new
\* counters and what the wrapper itself raises
safe_handler(s, e) ==
    IF e = NoExc THEN [stats |-> record_success(s), raises |-> NoExc]
    ELSE IF e = Cancelled THEN [stats |-> s, raises |-> Cancelled]
    ELSE [stats |-> record_failure(s), raises |-> NoExc]

(* ---------------------------------------------------------------------- *)
(* Channel transport                                                       *)
(* ---------------------------------------------------------------------- *)
\* client.get_messages(channel_id, limit): newest first
get_messages(limit) == TopDesc(channel, limit)

\* processed_ids.add(message.id); variant: the identifier is not recorded
AddProcessedSkip(ids, m) == ids
AddProcessed(ids, m) == ids \cup {m}

\* new_messages = [m for m in messages if m.id not in processed_ids]
NewMessages(msgs, ids) == SelectSeq(msgs, LAMBDA m : m \notin ids)

\* "await self._handle_message(message)": the run of message m is begun,
\* and the loop goes on when it has ended; variant: the loop goes on
\* without awaiting the end of the run
BeginRun(runs, m) == runs \cup {m}
EndRunDetached(runs, m) == runs
EndRun(runs, m) == runs \ {m}

\* message.text of a message: empty for a media-only message
NoMessage == "<none>"

\* "if not message_text: return": where _handle_message is after the test;
\* variant: the test is missing
FirstStageNoGuard(text) == "classify"
FirstStage(text) == IF text = "" THEN "returned" ELSE "classify"

(* ---------------------------------------------------------------------- *)
(* Numbers: a float read from a decimal literal is [k, m, e] = m / 10^e    *)
(* ---------------------------------------------------------------------- *)
RECURSIVE Pow10(_)
Pow10(n) == IF n = 0 THEN 1 ELSE 10 * Pow10(n - 1)

RECURSIVE StripZeros(_, _)
StripZeros(m, e) ==
    IF e > 0 /\ m % 10 = 0 THEN StripZeros(m \div 10, e - 1)
    ELSE [k |-> "fin", m |-> m, e |-> e]

\* float("<m with e fractional digits>")
Dec(m, e) == StripZeros(m, e)

\* a decimal literal as the exchange sends it: the digits m, the last e of
\* them after the point ("0.001" is Lit(1, 3), "1" is Lit(1, 0))
Lit(m, e) == [k |-> "lit", m |-> m, e |-> e]

\* float(<literal>)
float(lit) == Dec(lit.m, lit.e)
Inf == [k |-> "inf", m |-> 0, e |-> 0]
NaN == [k |-> "nan", m |-> 0, e |-> 0]

IsFinite(x) == x.k = "fin"

RECURSIVE NumDigits(_)
NumDigits(m) == IF m < 10 THEN 1 ELSE 1 + NumDigits(m \div 10)

\* round(n / d) for n >= 0, d > 0, ties to even
RoundHalfEven(n, d) ==
    LET q == n \div d
        r == n % d
    IN  IF 2 * r < d THEN q
        ELSE IF 2 * r > d THEN q + 1
        ELSE IF q % 2 = 0 THEN q ELSE q + 1

(* ---------------------------------------------------------------------- *)
(* Configuration                                                           *)
(* ---------------------------------------------------------------------- *)
BALANCE == 1000
AMOUNT == 10

(* ---------------------------------------------------------------------- *)
(* SignalGrammar: a label is the sequence of its whitespace-separated      *)
(* tokens; a token is a word, a "Key:value" field or free text             *)
(* ---------------------------------------------------------------------- *)
Word(s) == [t |-> "word", s |-> s, key |-> "", num |-> NaN, x |-> FALSE]
\* "Key:<literal>[x]"; ok is whether float() accepts the literal
Field(key, num, ok, x) == [t |-> "field", s |-> IF ok THEN "num" ELSE "bad",
                           key |-> key, num |-> num, x |-> x]
\* "<digits>[.<digits>]%" and other text without whitespace
Pct(num) == [t |-> "pct", s |-> "", key |-> "", num |-> num, x |-> FALSE]
Other(s) == [t |-> "other", s |-> s, key |-> "", num |-> NaN, x |-> FALSE]

NoSignal == [type |-> "none"]
NoLabel == <<>>

EntrySignal(asset, direction, leverage, tp, sl) ==
    [type |-> "entry", asset |-> asset, direction |-> direction,
     leverage |-> leverage, tp |-> tp, sl |-> sl]

ExitSignal(asset, exit_type, percentage) ==
    [type |-> "exit", asset |-> asset, exit_type |-> exit_type,
     percentage |-> percentage]

\* _parse_number: rstrip('x') then float(); None when float() raises
NoNumber == [k |-> "none", m |-> 0, e |-> 0]
parse_number(tok) == IF tok.s = "bad" THEN NoNumber ELSE tok.num

\* re.match(r'(\w+)\s+(Long|Short)\s+Leverage:(\S+)\s+TP:(\S+)\s+SL:(\S+)')
EntryMatches(r) ==
    /\ Len(r) >= 5
    /\ r[1].t = "word"
    /\ r[2].t = "word" /\ r[2].s \in {"Long", "Short"}
    /\ r[3].t = "field" /\ r[3].key = "Leverage:"
    /\ r[4].t = "field" /\ r[4].key = "TP:"
    /\ r[5].t = "field" /\ r[5].key = "SL:"

parse_entry(r) ==
    IF ~EntryMatches(r) THEN NoSignal
    ELSE IF \/ parse_number(r[3]) = NoNumber
            \/ parse_number(r[4]) = NoNumber
            \/ parse_number(r[5]) = NoNumber
         THEN NoSignal
    ELSE EntrySignal(r[1].s, r[2].s, parse_number(r[3]), parse_number(r[4]),
                     parse_number(r[5]))

\* 0 < percentage <= 100
PctInRange(p) == p.k = "fin" /\ p.m > 0 /\ p.m <= 100 * Pow10(p.e)

\* variant: a percentage above 100 is clamped to 100
parse_exitClamp(r) ==
    IF ~(Len(r) >= 3 /\ r[1].t = "word" /\ r[2].t = "word" /\ r[2].s = "close")
    THEN NoSignal
    ELSE IF Len(r) = 3 /\ r[3].t = "word" /\ r[3].s = "all"
         THEN ExitSignal(r[1].s, "all", NoNumber)
    ELSE IF r[3].t = "pct"
         THEN IF PctInRange(r[3].num)
              THEN ExitSignal(r[1].s, "percentage", r[3].num)
              ELSE IF r[3].num.m > 0
                   THEN ExitSignal(r[1].s, "percentage", Dec(100, 0))
              ELSE NoSignal
    ELSE NoSignal

\* re.match(r'(\w+)\s+close\s+(.+?)$'), then "all" or r'(\d+(?:\.\d+)?)%'
parse_exit(r) ==
    IF ~(Len(r) >= 3 /\ r[1].t = "word" /\ r[2].t = "word" /\ r[2].s = "close")
    THEN NoSignal
    ELSE IF Len(r) = 3 /\ r[3].t = "word" /\ r[3].s = "all"
         THEN ExitSignal(r[1].s, "all", NoNumber)
    ELSE IF r[3].t = "pct"
         THEN IF PctInRange(r[3].num)
              THEN ExitSignal(r[1].s, "percentage", r[3].num)
              ELSE NoSignal
    ELSE NoSignal

parse(r) ==
    IF Len(r) = 1 /\ r[1].t = "word" /\ r[1].s = "NOISE" THEN NoSignal
    ELSE IF parse_entry(r) # NoSignal THEN parse_entry(r)
    ELSE IF parse_exit(r) # NoSignal THEN parse_exit(r)
    ELSE NoSignal

(* ---------------------------------------------------------------------- *)
(* BybitExchange: every operation yields [raises, value] for the response  *)
(* the exchange gave                                                       *)
(* ---------------------------------------------------------------------- *)
SYMBOL_SUFFIX == "USDT"

\* f'{signal.asset}{self.SYMBOL_SUFFIX}'
SymbolFull(asset) == <<asset, SYMBOL_SUFFIX>>

Instrument(base, rest, quoteCoin, contractType, minOrderQty) ==
    [symbol |-> <<base, rest>>, quoteCoin |-> quoteCoin,
     contractType |-> contractType, minOrderQty |-> minOrderQty]

\* the instrument catalog of the exchange, page by page; nextPageCursor 0
\* is the empty cursor
Catalog ==
    << [list |-> << Instrument("BTC", "USDT", "USDT", "LinearPerpetual", Lit(1, 3)),
                    Instrument("BTC", "PERP", "USDC", "LinearPerpetual", Lit(1, 3)) >>,
        nextPageCursor |-> 2],
       [list |-> << Instrument("DOGE", "USDT", "USDT", "LinearPerpetual", Lit(1, 0)),
                    Instrument("ETH", "USDT-FUT", "USDT", "LinearFutures", Lit(1, 2)),
                    Instrument("SOL", "USDT", "USDT", "LinearPerpetual", NoNumber) >>,
        nextPageCursor |-> 0] >>

EmptyCache == [sym \in {} |-> NoNumber]

\* the for loop over one page of get_all_min_order_qty
RECURSIVE AddInstruments(_, _)
AddInstruments(results, list) ==
    IF list = <<>> THEN results
    ELSE LET inst == Head(list)
             keep == /\ inst.quoteCoin = "USDT"
                     /\ inst.contractType = "LinearPerpetual"
                     /\ inst.minOrderQty # NoNumber
             next == IF keep
                     THEN [sym \in DOMAIN results \cup {inst.symbol} |->
                             IF sym = inst.symbol THEN float(inst.minOrderQty)
                             ELSE results[sym]]
                     ELSE results
         IN  AddInstruments(next, Tail(list))

\* variant: the loop ends after the first page
get_all_min_order_qtyFirstPage(results, cursor, failAt) ==
    IF cursor = failAt THEN [raises |-> Exc, value |-> EmptyCache]
    ELSE [raises |-> NoExc,
          value |-> AddInstruments(results, Catalog[cursor].list)]

\* the while loop of get_all_min_order_qty from page cursor on; failAt is
\* the page whose request fails (0: none)
RECURSIVE get_all_min_order_qty(_, _, _)
get_all_min_order_qty(results, cursor, failAt) ==
    IF cursor = failAt THEN [raises |-> Exc, value |-> EmptyCache]
    ELSE LET page == Catalog[cursor]
             next == AddInstruments(results, page.list)
         IN  IF page.nextPageCursor = 0 THEN [raises |-> NoExc, value |-> next]
             ELSE get_all_min_order_qty(next, page.nextPageCursor, failAt)

\* variant: every error of the request is raised
set_leverageRaiseAll(r) == IF r = "ok" THEN NoExc ELSE Exc

\* set_leverage: r is "ok", or the error the request raised; an error whose
\* text holds 'ErrCode: 110043' (leverage not modified) is not raised
set_leverage(r) ==
    IF r = "ok" THEN NoExc
    ELSE IF r = "110043" THEN NoExc
    ELSE Exc

\* get_symbol_prices: r.ok is whether the ticker request succeeded
get_symbol_prices(r) ==
    IF ~r.ok THEN [raises |-> Exc, value |-> r]
    ELSE [raises |-> NoExc, value |-> r]

\* variant: the size > 0 filter is missing
get_open_positionsNoFilter(r) ==
    IF ~r.ok THEN [raises |-> Exc, value |-> <<>>]
    ELSE [raises |-> NoExc, value |-> r.list]

\* get_open_positions: r.ok is whether the request succeeded, r.list the
\* position records of the answer
get_open_positions(r) ==
    IF ~r.ok THEN [raises |-> Exc, value |-> <<>>]
    ELSE [raises |-> NoExc,
          value |-> SelectSeq(r.list, LAMBDA p : p.size.k = "fin" /\ p.size.m > 0)]

\* place_market_order and close_position: r is "ok" or "fail"
place_order(r) == IF r = "ok" THEN NoExc ELSE Exc

\* variant: the order is placed on the side of the position
CloseSideSame(pos_side) == pos_side

\* close_side = 'Sell' if pos_side == 'Buy' else 'Buy'
CloseSide(pos_side) == IF pos_side = "Buy" THEN "Sell" ELSE "Buy"

Call(op, symbol, side, qty, leverage, tp, sl, reduceOnly) ==
    [op |-> op, symbol |-> symbol, side |-> side, qty |-> qty,
     leverage |-> leverage, tp |-> tp, sl |-> sl, reduceOnly |-> reduceOnly]

(* ---------------------------------------------------------------------- *)
(* TradingStrategy                                                         *)
(* ---------------------------------------------------------------------- *)
\* an entry or exit step sequence that ends without raising, and the
\* exchange calls it made
Returns(made) == [calls |-> made, raises |-> NoExc]

\* a key the exchange left out of a record of its answer
Missing == "<missing>"

\* a computed float: n / d
Ratio(n, d) == [k |-> "fin", n |-> n, d |-> d]
NoQty == [k |-> "none", n |-> 0, d |-> 1]

\* _calculate_qty: None when the division raises
calculate_qty(price, leverage) ==
    IF price.m = 0 THEN NoQty
    ELSE Ratio(BALANCE * AMOUNT * leverage.m * Pow10(price.e),
               100 * Pow10(leverage.e) * price.m)

\* digits after the '.' of str(min_order_qty)
DecimalPlaces(q) ==
    IF q.e = 0 THEN 1
    ELSE IF q.m * 10000 < Pow10(q.e)
         THEN IF q.m < 10 THEN 0 ELSE NumDigits(q.m) - 1 + 4
    ELSE q.e

\* _round_quantity
round_quantity(qty, min_order_qty) ==
    Dec(RoundHalfEven(qty.n * Pow10(DecimalPlaces(min_order_qty)), qty.d),
        DecimalPlaces(min_order_qty))

\* variant: the leverage is set before the symbol is looked up in the cache
process_entryLeverageFirst(sig, cache, resp) ==
    LET sym == SymbolFull(sig.asset)
        c1 == << Call("set_leverage", sym, "", NoNumber, sig.leverage,
                      NoNumber, NoNumber, FALSE) >>
        c2 == c1 \o << Call("get_tickers", sym, "", NoNumber, NoNumber,
                            NoNumber, NoNumber, FALSE) >>
        prices == get_symbol_prices(resp.prices)
        qty == calculate_qty(prices.value.last, sig.leverage)
        side == IF sig.direction = "Long" THEN "Buy" ELSE "Sell"
    IN  IF set_leverage(resp.lev) # NoExc THEN Returns(c1)
        ELSE IF sym \notin DOMAIN cache THEN Returns(c1)
        ELSE IF prices.raises # NoExc THEN Returns(c2)
        ELSE IF qty = NoQty THEN Returns(c2)
        ELSE Returns(c2 \o << Call("place_order", sym, side,
                                   round_quantity(qty, cache[sym]), NoNumber,
                                   sig.tp, sig.sl, FALSE) >>)

\* variant: the quantity is computed from the mark price
process_entryMarkPrice(sig, cache, resp) ==
    LET sym == SymbolFull(sig.asset)
        c1 == << Call("set_leverage", sym, "", NoNumber, sig.leverage,
                      NoNumber, NoNumber, FALSE) >>
        c2 == c1 \o << Call("get_tickers", sym, "", NoNumber, NoNumber,
                            NoNumber, NoNumber, FALSE) >>
        prices == get_symbol_prices(resp.prices)
        qty == calculate_qty(prices.value.mark, sig.leverage)
        side == IF sig.direction = "Long" THEN "Buy" ELSE "Sell"
    IN  IF sym \notin DOMAIN cache THEN Returns(<<>>)
        ELSE IF set_leverage(resp.lev) # NoExc THEN Returns(c1)
        ELSE IF prices.raises # NoExc THEN Returns(c2)
        ELSE IF qty = NoQty THEN Returns(c2)
        ELSE Returns(c2 \o << Call("place_order", sym, side,
                                   round_quantity(qty, cache[sym]), NoNumber,
                                   sig.tp, sig.sl, FALSE) >>)

\* variant: the price is queried before the leverage is set
process_entryPriceFirst(sig, cache, resp) ==
    LET sym == SymbolFull(sig.asset)
        c1 == << Call("get_tickers", sym, "", NoNumber, NoNumber,
                      NoNumber, NoNumber, FALSE) >>
        c2 == c1 \o << Call("set_leverage", sym, "", NoNumber, sig.leverage,
                            NoNumber, NoNumber, FALSE) >>
        prices == get_symbol_prices(resp.prices)
        qty == calculate_qty(prices.value.last, sig.leverage)
        side == IF sig.direction = "Long" THEN "Buy" ELSE "Sell"
    IN  IF sym \notin DOMAIN cache THEN Returns(<<>>)
        ELSE IF prices.raises # NoExc THEN Returns(c1)
        ELSE IF set_leverage(resp.lev) # NoExc THEN Returns(c2)
        ELSE IF qty = NoQty THEN Returns(c2)
        ELSE Returns(c2 \o << Call("place_order", sym, side,
                                   round_quantity(qty, cache[sym]), NoNumber,
                                   sig.tp, sig.sl, FALSE) >>)

\* _process_entry: the exchange calls it makes, given the responses
process_entry(sig, cache, resp) ==
    LET sym == SymbolFull(sig.asset)
        c1 == << Call("set_leverage", sym, "", NoNumber, sig.leverage,
                      NoNumber, NoNumber, FALSE) >>
        c2 == c1 \o << Call("get_tickers", sym, "", NoNumber, NoNumber,
                            NoNumber, NoNumber, FALSE) >>
        prices == get_symbol_prices(resp.prices)
        qty == calculate_qty(prices.value.last, sig.leverage)
        side == IF sig.direction = "Long" THEN "Buy" ELSE "Sell"
    IN  IF sym \notin DOMAIN cache THEN Returns(<<>>)
        ELSE IF set_leverage(resp.lev) # NoExc THEN Returns(c1)
        ELSE IF prices.raises # NoExc THEN Returns(c2)
        ELSE IF qty = NoQty THEN Returns(c2)
        ELSE Returns(c2 \o << Call("place_order", sym, side,
                                   round_quantity(qty, cache[sym]), NoNumber,
                                   sig.tp, sig.sl, FALSE) >>)

\* variant: a failed close_position is tried a second time
process_exitRetryClose(sig, cache, resp) ==
    LET sym == SymbolFull(sig.asset)
        c1 == << Call("get_positions", sym, "", NoNumber, NoNumber,
                      NoNumber, NoNumber, FALSE) >>
        positions == get_open_positions(resp.positions)
        pos == positions.value[1]
        qty_to_close ==
            IF sig.exit_type = "all" THEN Ratio(pos.size.m, Pow10(pos.size.e))
            ELSE Ratio(pos.size.m * sig.percentage.m,
                       100 * Pow10(pos.size.e + sig.percentage.e))
        close == << Call("place_order", sym, CloseSide(pos.side),
                         round_quantity(qty_to_close, cache[sym]),
                         NoNumber, NoNumber, NoNumber, TRUE) >>
    IN  IF sym \notin DOMAIN cache THEN Returns(<<>>)
        ELSE IF positions.raises # NoExc THEN Returns(c1)
        ELSE IF positions.value = <<>> THEN Returns(c1)
        ELSE IF pos.side = Missing THEN [calls |-> c1, raises |-> Exc]
        ELSE IF place_order(resp.order) # NoExc THEN Returns(c1 \o close \o close)
        ELSE Returns(c1 \o close)

\* _process_exit: the exchange calls it makes, given the responses;
\* positions[0]['side'] raises KeyError when the record has no side
process_exit(sig, cache, resp) ==
    LET sym == SymbolFull(sig.asset)
        c1 == << Call("get_positions", sym, "", NoNumber, NoNumber,
                      NoNumber, NoNumber, FALSE) >>
        positions == get_open_positions(resp.positions)
        pos == positions.value[1]
        qty_to_close ==
            IF sig.exit_type = "all" THEN Ratio(pos.size.m, Pow10(pos.size.e))
            ELSE Ratio(pos.size.m * sig.percentage.m,
                       100 * Pow10(pos.size.e + sig.percentage.e))
    IN  IF sym \notin DOMAIN cache THEN Returns(<<>>)
        ELSE IF positions.raises # NoExc THEN Returns(c1)
        ELSE IF positions.value = <<>> THEN Returns(c1)
        ELSE IF pos.side = Missing THEN [calls |-> c1, raises |-> Exc]
        ELSE Returns(c1 \o << Call("place_order", sym, CloseSide(pos.side),
                                   round_quantity(qty_to_close, cache[sym]),
                                   NoNumber, NoNumber, NoNumber, TRUE) >>)

\* process_signal: the exchange calls made and what it raises
process_signal(sig, cache, resp) ==
    IF sig = NoSignal THEN Returns(<<>>)
    ELSE IF sig.type = "entry"
         THEN [calls |-> process_entry(sig, cache, resp).calls,
               raises |-> ProcessSignalExcept(process_entry(sig, cache, resp).raises)]
    ELSE [calls |-> process_exit(sig, cache, resp).calls,
          raises |-> ProcessSignalExcept(process_exit(sig, cache, resp).raises)]

\* min_order_qty_cache when process_signal has ended: _process_entry and
\* _process_exit only test and read it; variant: an unknown symbol is
\* entered with quantity step 1
CacheAfterSignalLearn(sig, cache) ==
    IF sig = NoSignal \/ SymbolFull(sig.asset) \in DOMAIN cache THEN cache
    ELSE [sym \in DOMAIN cache \cup {SymbolFull(sig.asset)} |->
            IF sym \in DOMAIN cache THEN cache[sym] ELSE Dec(1, 0)]
CacheAfterSignal(sig, cache) == cache

(* ---------------------------------------------------------------------- *)
(* Inputs: classifier answers and exchange responses                       *)
(* ---------------------------------------------------------------------- *)
Entry(asset, direction, lev, x, tp, sl) ==
    << Word(asset), Word(direction), Field("Leverage:", lev, TRUE, x),
       Field("TP:", tp, TRUE, FALSE), Field("SL:", sl, TRUE, FALSE) >>

Labels ==
    { << Word("NOISE") >>,
      Entry("BTC", "Long", Dec(5, 0), TRUE, Dec(70000, 0), Dec(60000, 0)),
      Entry("DOGE", "Short", Dec(25, 1), FALSE, Dec(11, 2), Dec(32, 2)),
      Entry("XYZ", "Long", Dec(5, 0), TRUE, Dec(2, 0), Dec(1, 0)),
      << Word("BTC"), Word("Long"), Field("Leverage:", NaN, FALSE, FALSE),
         Field("TP:", Dec(2, 0), TRUE, FALSE), Field("SL:", Dec(1, 0), TRUE, FALSE) >>,
      << Word("BTC"), Word("close"), Word("all") >>,
      << Word("DOGE"), Word("close"), Pct(Dec(50, 0)) >>,
      << Word("BTC"), Word("close"), Pct(Dec(1, 0)) >>,
      << Word("XYZ"), Word("close"), Word("all") >>,
      << Word("ETH"), Word("close"), Pct(Dec(150, 0)) >>,
      << Other("buy!"), Word("now") >> }

Ticker(last, mark, index) ==
    [ok |-> TRUE, last |-> last, mark |-> mark, index |-> index]
NoTicker == [ok |-> FALSE, last |-> NoNumber, mark |-> NoNumber, index |-> NoNumber]
Position(side, size) == [side |-> side, size |-> size]
Positions(list) == [ok |-> TRUE, list |-> list]
NoPositions == [ok |-> FALSE, list |-> <<>>]

LevResponses == {"ok", "110043", "error"}
PriceResponses ==
    { NoTicker,
      Ticker(Dec(65000, 0), Dec(64990, 0), Dec(65010, 0)),
      Ticker(Dec(3, 1), Dec(4, 1), Dec(2, 1)),
      Ticker(Dec(0, 0), Dec(3, 1), Dec(3, 1)) }
PositionResponses ==
    { NoPositions,
      Positions(<<>>),
      Positions(<< Position("", Dec(0, 0)) >>),
      Positions(<< Position("Buy", Dec(15, 3)) >>),
      Positions(<< Position(Missing, Dec(2, 0)) >>),
      Positions(<< Position("Sell", Dec(7, 0)) >>),
      Positions(<< Position("", Dec(0, 0)), Position("Sell", Dec(3, 0)) >>) }
OrderResponses == {"ok", "fail"}

Responses ==
    [lev : LevResponses, prices : PriceResponses,
     positions : PositionResponses, order : OrderResponses]

NoResponses ==
    [lev |-> "none", prices |-> NoTicker, positions |-> NoPositions,
     order |-> "none"]

\* the responses to the requests that processing sig can make
ResponsesFor(sig) ==
    IF sig = NoSignal THEN {NoResponses}
    ELSE IF sig.type = "entry"
    THEN [lev : LevResponses, prices : PriceResponses,
          positions : {NoPositions}, order : OrderResponses]
    ELSE [lev : {"none"}, prices : {NoTicker}, positions : PositionResponses,
          order : OrderResponses]

\* the responses to the requests that were made, as the run has seen them
Answered(r, made) ==
    LET asked(op) == \E i \in 1..Len(made) : made[i].op = op
    IN  [lev |-> IF asked("set_leverage") THEN r.lev ELSE "none",
         prices |-> IF asked("get_tickers") THEN r.prices ELSE NoTicker,
         positions |-> IF asked("get_positions") THEN r.positions ELSE NoPositions,
         order |-> IF asked("place_order") THEN r.order ELSE "none"]

(* ---------------------------------------------------------------------- *)
(* Initial state: objects constructed, main() about to load the cache      *)
(* ---------------------------------------------------------------------- *)
\* the channel is empty, holds exactly what one fetch returns, or more
InitialSizes == {0, MaxPre - 1, MaxPre}

NoRun == [handler |-> NoExc, raises |-> NoExc]

\* the monitor task does not exist
NoMonitor == [running |-> FALSE, sample |-> "none", event |-> "none"]

Init ==
    /\ \E n \in InitialSizes :
         /\ channel = 1..n
         /\ nextId = n + 1
         /\ preStart = 1..n
    /\ nDeletes = 0
    /\ seeded = {}
    /\ messages = <<>>
    /\ pc = "init_client"
    /\ processed_ids = {}
    /\ pending = <<>>
    /\ cur = 0
    /\ message_text = NoMessage
    /\ stages = {}
    /\ outcome = "none"
    /\ dispatched = <<>>
    /\ cancelSent = FALSE
    /\ in_flight = {}
    /\ handler_stats = HandlerStats
    /\ min_order_qty_cache = EmptyCache
    /\ ai_response = NoLabel
    /\ signal = NoSignal
    /\ responses = NoResponses
    /\ calls = <<>>
    /\ connection_state = "none"
    /\ mon = NoMonitor
    /\ router_client = "none"
    /\ started = <<>>
    /\ wcalls = 0
    /\ recorded = <<>>
    /\ wlast = NoRun

Terminal == {"exited", "cancelled", "crashed"}

chanVars == <<channel, nextId, nDeletes, preStart>>
pollVars == <<seeded, messages, processed_ids, pending,
              cur, message_text, stages, outcome, dispatched, cancelSent,
              in_flight>>
runVars == <<ai_response, signal, responses, calls>>
wrapVars == <<handler_stats, wcalls, recorded, wlast>>
monVars == <<connection_state, mon>>
mainVars == <<router_client, started>>

(* ---------------------------------------------------------------------- *)
(* The channel. The program sees it only through get_messages, so a change *)
(* is modelled while a get_messages request is outstanding.                *)
(* ---------------------------------------------------------------------- *)
Reading == {"seed", "fetch"}

Post ==
    /\ pc \in Reading
    /\ nextId <= Cardinality(preStart) + MaxPosts
    /\ channel' = channel \cup {nextId}
    /\ nextId' = nextId + 1
    /\ UNCHANGED <<nDeletes, preStart, pc, pollVars, runVars, wrapVars, mainVars, monVars,
                   min_order_qty_cache>>

Delete ==
    /\ pc \in Reading
    /\ nDeletes < MaxDeletes
    /\ \E m \in Range(TopDesc(channel, DeleteDepth)) : channel' = channel \ {m}
    /\ nDeletes' = nDeletes + 1
    /\ UNCHANGED <<nextId, preStart, pc, pollVars, runVars, wrapVars, mainVars, monVars,
                   min_order_qty_cache>>

(* ---------------------------------------------------------------------- *)
(* main() and ChannelParser.start()                                        *)
(* ---------------------------------------------------------------------- *)
\* auth.get_client() and router_client.init() return
ClientInitOk ==
    /\ pc = "init_client"
    /\ router_client' = "ready"
    /\ started' = Append(started, "client")
    /\ pc' = "init_cache"
    /\ UNCHANGED <<chanVars, pollVars, runVars, wrapVars, monVars,
                   min_order_qty_cache>>

\* auth.get_client() raises: main() logs and finishes
ClientInitFail ==
    /\ pc = "init_client"
    /\ pc' = "exited"
    /\ UNCHANGED <<chanVars, pollVars, runVars, wrapVars, mainVars, monVars,
                   min_order_qty_cache>>

\* strategy.init_cache() returns
InitCacheOk ==
    /\ pc = "init_cache"
    /\ get_all_min_order_qty(EmptyCache, 1, 0).raises = NoExc
    /\ min_order_qty_cache' = get_all_min_order_qty(EmptyCache, 1, 0).value
    /\ pc' = "seed"
    /\ started' = Append(started, "cache")
    /\ UNCHANGED <<chanVars, pollVars, runVars, wrapVars, router_client, monVars>>

\* strategy.init_cache() raises: main() logs and finishes
InitCacheFail ==
    /\ pc = "init_cache"
    /\ \E failAt \in 1..Len(Catalog) :
         get_all_min_order_qty(EmptyCache, 1, failAt).raises = Exc
    /\ pc' = "exited"
    /\ UNCHANGED <<chanVars, pollVars, runVars, wrapVars, mainVars, monVars, min_order_qty_cache>>

\* _init_processed_ids() returns and start() creates the polling task
SeedOk ==
    /\ pc = "seed"
    /\ processed_ids' = processed_ids \cup Range(get_messages(POLL_LIMIT))
    /\ seeded' = Range(get_messages(POLL_LIMIT))
    /\ pc' = "sleep"
    /\ mon' = [mon EXCEPT !.running = TRUE]
    /\ started' = started \o <<"seed", "tasks">>
    /\ UNCHANGED <<chanVars, messages, pending, cur, message_text, stages,
                   outcome, dispatched, cancelSent, in_flight, runVars, wrapVars, router_client,
                   connection_state, min_order_qty_cache>>

\* _init_processed_ids() raises: start() re-raises, main() logs and finishes
SeedFail ==
    /\ pc = "seed"
    /\ pc' = IF StartExcept(Exc) = NoExc THEN "sleep" ELSE "exited"
    /\ mon' = IF pc' = "sleep" THEN [mon EXCEPT !.running = TRUE] ELSE mon
    /\ started' = IF pc' = "sleep" THEN Append(started, "tasks") ELSE started
    /\ UNCHANGED <<chanVars, pollVars, runVars, wrapVars, router_client,
                   connection_state, min_order_qty_cache>>

(* ---------------------------------------------------------------------- *)
(* ChannelParser._polling_loop and _handle_message                         *)
(* ---------------------------------------------------------------------- *)
\* the exception left _handle_message or the loop body: the rest of the
\* cycle is dropped when the loop goes on, and the task stays where it was
\* when it ends
LeaveCycle ==
    IF pc' = "sleep"
    THEN /\ pending' = <<>>
         /\ cur' = 0
         /\ message_text' = NoMessage
         /\ stages' = {}
         /\ outcome' = "none"
    ELSE UNCHANGED <<pending, cur, message_text, stages, outcome>>

\* await asyncio.sleep(POLL_INTERVAL) returns
PollWake ==
    /\ pc = "sleep"
    /\ pc' = "fetch"
    /\ messages' = <<>>
    /\ UNCHANGED <<chanVars, seeded, processed_ids, pending, cur, message_text,
                   stages, outcome, dispatched, cancelSent, in_flight, runVars, wrapVars, mainVars, monVars,
                   min_order_qty_cache>>

\* await client.get_messages(...) returns: new_messages is computed
FetchOk ==
    /\ pc = "fetch"
    /\ messages' = get_messages(POLL_LIMIT)
    /\ pending' = Reverse(NewMessages(messages', processed_ids))
    /\ pc' = IF pending' = <<>> THEN "sleep" ELSE "dispatch"
    /\ UNCHANGED <<chanVars, seeded, processed_ids, cur, message_text, stages,
                   outcome, dispatched, cancelSent, in_flight, runVars, wrapVars, mainVars, monVars,
                   min_order_qty_cache>>

\* await client.get_messages(...) raises
FetchFail ==
    /\ pc = "fetch"
    /\ pc' = AfterBodyRaise(Exc)
    /\ LeaveCycle
    /\ UNCHANGED <<chanVars, seeded, messages, processed_ids,
                   dispatched, cancelSent, in_flight, runVars, wrapVars, mainVars, monVars, min_order_qty_cache>>

\* one iteration of "for message in reversed(new_messages)" up to the first
\* await of _handle_message
DispatchStart(text) ==
    /\ pc = "dispatch"
    /\ processed_ids' = AddProcessed(processed_ids, Head(pending))
    /\ dispatched' = Append(dispatched, Head(pending))
    /\ cur' = Head(pending)
    /\ message_text' = text
    /\ pending' = Tail(pending)
    /\ pc' = FirstStage(text)
    /\ IF pc' = "classify"
       THEN /\ stages' = {"classify"}
            /\ outcome' = "none"
            /\ in_flight' = BeginRun(in_flight, Head(pending))
       ELSE /\ stages' = {}
            /\ outcome' = "skipped"
            /\ in_flight' = EndRun(BeginRun(in_flight, Head(pending)),
                                   Head(pending))
    /\ UNCHANGED <<chanVars, seeded, messages, cancelSent,
                   runVars, wrapVars, mainVars, monVars, min_order_qty_cache>>

\* the message has text: classification is requested
DispatchText == DispatchStart("text")

\* "if not message_text: return"
DispatchNoText == DispatchStart("")

\* await classify(message_text) raises
ClassifyFail ==
    /\ pc = "classify"
    /\ pc' = AfterHandlerRaise(ClassifyExcept(Exc))
    /\ in_flight' = EndRun(in_flight, cur)
    /\ IF pc' = "returned"
       THEN /\ outcome' = "failed"
            /\ stages' = IF ClassifyExcept(Exc) = NoExc
                         THEN stages \cup {"parse"} ELSE stages
            /\ UNCHANGED <<pending, cur, message_text>>
       ELSE LeaveCycle
    /\ UNCHANGED <<chanVars, seeded, messages, processed_ids, dispatched,
                   cancelSent, runVars, wrapVars, mainVars, monVars, min_order_qty_cache>>

\* await classify(message_text) returns label; parse and process_signal run
\* without suspension
ClassifyOk ==
    /\ pc = "classify"
    /\ router_client = "ready"
    /\ \E label \in Labels : \E r \in ResponsesFor(parse(label)) :
         LET run == process_signal(parse(label), min_order_qty_cache, r)
         IN  /\ ai_response' = label
             /\ signal' = parse(label)
             /\ calls' = run.calls
             /\ responses' = Answered(r, run.calls)
             /\ min_order_qty_cache' =
                   CacheAfterSignal(parse(label), min_order_qty_cache)
             /\ pc' = AfterHandlerRaise(run.raises)
             /\ IF pc' = "returned"
                THEN /\ outcome' = IF run.raises = NoExc THEN "ok" ELSE "failed"
                     /\ stages' = stages \cup {"parse", "process_signal"}
                     /\ UNCHANGED <<pending, cur, message_text>>
                ELSE LeaveCycle
    /\ in_flight' = EndRun(in_flight, cur)
    /\ UNCHANGED <<chanVars, seeded, messages, processed_ids,
                   dispatched, cancelSent, wrapVars, mainVars, monVars>>

\* _handle_message has returned: next iteration of the for loop, or of the
\* while loop
LoopNext ==
    /\ pc = "returned"
    /\ pc' = IF pending = <<>> THEN "sleep" ELSE "dispatch"
    /\ cur' = 0
    /\ message_text' = NoMessage
    /\ stages' = {}
    /\ outcome' = "none"
    /\ ai_response' = NoLabel
    /\ signal' = NoSignal
    /\ responses' = NoResponses
    /\ calls' = <<>>
    /\ UNCHANGED <<chanVars, seeded, messages, processed_ids,
                   pending, dispatched, cancelSent, in_flight, wrapVars, mainVars, monVars, min_order_qty_cache>>

\* the task is cancelled: CancelledError is raised at the await it is
\* suspended on
Cancel ==
    /\ pc \in {"sleep", "fetch", "classify"}
    /\ cancelSent' = TRUE
    /\ in_flight' = IF pc = "classify" THEN EndRun(in_flight, cur) ELSE in_flight
    /\ pc' = IF pc = "sleep" THEN AfterSleepRaise(Cancelled)
             ELSE IF pc = "fetch" THEN AfterBodyRaise(Cancelled)
             ELSE AfterHandlerRaise(ClassifyExcept(Cancelled))
    /\ IF pc' = "returned"
       THEN /\ outcome' = "failed"
            /\ UNCHANGED <<pending, cur, message_text, stages>>
       ELSE LeaveCycle
    /\ UNCHANGED <<chanVars, seeded, messages, processed_ids,
                   dispatched, runVars, wrapVars, mainVars, monVars, min_order_qty_cache>>

Next ==
    \/ Post
    \/ Delete
    \/ ClientInitOk
    \/ ClientInitFail
    \/ InitCacheOk
    \/ InitCacheFail
    \/ SeedOk
    \/ SeedFail
    \/ PollWake
    \/ FetchOk
    \/ FetchFail
    \/ DispatchText
    \/ DispatchNoText
    \/ ClassifyFail
    \/ ClassifyOk
    \/ LoopNext
    \/ Cancel

Spec == Init /\ [][Next]_vars

(* ---------------------------------------------------------------------- *)
(* ChannelParser._monitor_connection: the polling task together with the   *)
(* monitor task, on a channel that is empty at startup. The monitor runs   *)
(* while the polling task is suspended at an await.                        *)
(* ---------------------------------------------------------------------- *)
\* what one pass of the monitor loop logs, given _connection_state and the
\* result of is_connected(); variant: every sample is logged
MonitorEventAlways(state, sample) ==
    IF sample = "up" THEN "restored" ELSE "lost"
MonitorEvent(state, sample) ==
    IF state = "none" THEN "none"
    ELSE IF state # sample
         THEN IF sample = "up" THEN "restored" ELSE "lost"
    ELSE "none"

Suspended == {"sleep", "fetch", "classify"}

\* one pass of "while True" up to "await asyncio.sleep(10)"
MonitorSample(sample) ==
    /\ mon.running
    /\ pc \in Suspended
    /\ connection_state' = sample
    /\ mon' = [mon EXCEPT !.sample = sample,
                          !.event = MonitorEvent(connection_state, sample)]
    /\ UNCHANGED <<chanVars, pc, pollVars, runVars, wrapVars, mainVars,
                   min_order_qty_cache>>

\* is_connected() returns True
MonitorUp == MonitorSample("up")

\* is_connected() returns False
MonitorDown == MonitorSample("down")

\* is_connected() raises: the monitor task logs, re-raises and ends
MonitorFail ==
    /\ mon.running
    /\ pc \in Suspended
    /\ mon' = NoMonitor
    /\ UNCHANGED <<chanVars, pc, pollVars, runVars, wrapVars, mainVars, connection_state,
                   min_order_qty_cache>>

MonitorInit == Init /\ channel = {}

MonitorNext ==
    \/ Next
    \/ MonitorUp
    \/ MonitorDown
    \/ MonitorFail

MonitorSpec == MonitorInit /\ [][MonitorNext]_vars

(* ---------------------------------------------------------------------- *)
(* Harness for safe_handler: a handler wrapped by the decorator is called  *)
(* with every outcome                                                      *)
(* ---------------------------------------------------------------------- *)
WrapperInit ==
    /\ channel = {}
    /\ nextId = 1
    /\ preStart = {}
    /\ nDeletes = 0
    /\ seeded = {}
    /\ messages = <<>>
    /\ pc = "wrapper"
    /\ processed_ids = {}
    /\ pending = <<>>
    /\ cur = 0
    /\ message_text = NoMessage
    /\ stages = {}
    /\ outcome = "none"
    /\ dispatched = <<>>
    /\ cancelSent = FALSE
    /\ in_flight = {}
    /\ handler_stats = HandlerStats
    /\ min_order_qty_cache = EmptyCache
    /\ ai_response = NoLabel
    /\ signal = NoSignal
    /\ responses = NoResponses
    /\ calls = <<>>
    /\ connection_state = "none"
    /\ mon = NoMonitor
    /\ router_client = "none"
    /\ started = <<>>
    /\ wcalls = 0
    /\ recorded = <<>>
    /\ wlast = NoRun

WrapperCall(e) ==
    /\ pc = "wrapper"
    /\ wcalls < MaxCalls
    /\ wcalls' = wcalls + 1
    /\ handler_stats' = safe_handler(handler_stats, e).stats
    /\ wlast' = [handler |-> e, raises |-> safe_handler(handler_stats, e).raises]
    /\ recorded' = IF e = NoExc THEN Append(recorded, "success")
                   ELSE IF e = Cancelled THEN recorded
                   ELSE Append(recorded, "failure")
    /\ UNCHANGED <<chanVars, pc, pollVars, runVars, mainVars, monVars, min_order_qty_cache>>

\* the wrapped handler returns
WrapperCallReturns == WrapperCall(NoExc)

\* the wrapped handler raises an Exception
WrapperCallRaises == WrapperCall(Exc)

\* the wrapped handler is cancelled
WrapperCallCancelled == WrapperCall(Cancelled)

WrapperNext ==
    \/ WrapperCallReturns
    \/ WrapperCallRaises
    \/ WrapperCallCancelled

WrapperSpec == WrapperInit /\ [][WrapperNext]_vars

(* ---------------------------------------------------------------------- *)
(* Harness for parse: it is applied to classifier answers of every shape   *)
(* ---------------------------------------------------------------------- *)
\* the text after "Key:" of a field: the float it converts to, whether
\* float() accepts it once the trailing x is stripped, and the trailing x
NumText(num, ok, x) == [num |-> num, ok |-> ok, x |-> x]

\* "5x", "2.5", "0", "-3", "inf", "nan", "abc"
LeverageTexts ==
    { NumText(Dec(5, 0), TRUE, TRUE), NumText(Dec(25, 1), TRUE, FALSE),
      NumText(Dec(0, 0), TRUE, FALSE), NumText(Dec(-3, 0), TRUE, FALSE),
      NumText(Inf, TRUE, FALSE), NumText(NaN, TRUE, FALSE),
      NumText(NaN, FALSE, FALSE) }
\* "70000", "0", "inf", "abc"
TpTexts ==
    { NumText(Dec(70000, 0), TRUE, FALSE), NumText(Dec(0, 0), TRUE, FALSE),
      NumText(Inf, TRUE, FALSE), NumText(NaN, FALSE, FALSE) }
\* "60000", "-3", "nan"
SlTexts ==
    { NumText(Dec(60000, 0), TRUE, FALSE), NumText(Dec(-3, 0), TRUE, FALSE),
      NumText(NaN, TRUE, FALSE) }

\* what follows the grammar's last token in the answer
Tails == { <<>>, << Word("now") >> }

EntryLabels ==
    { << Word("BTC"), Word(d), Field("Leverage:", l.num, l.ok, l.x),
         Field("TP:", t.num, t.ok, t.x), Field("SL:", z.num, z.ok, z.x) >> \o tail :
        d \in {"Long", "Short", "long"}, l \in LeverageTexts, t \in TpTexts,
        z \in SlTexts, tail \in Tails }

\* "all", "ALL", "0%", "0.5%", "50%", "100%", "100.5%", "150%", "half"
ExitValues ==
    { Word("all"), Word("ALL"), Pct(Dec(0, 0)), Pct(Dec(5, 1)), Pct(Dec(50, 0)),
      Pct(Dec(100, 0)), Pct(Dec(1005, 1)), Pct(Dec(150, 0)), Other("half") }

ExitLabels ==
    { << Word("ETH"), Word(c), v >> \o tail :
        c \in {"close", "Close"}, v \in ExitValues, tail \in Tails }

ParserLabels ==
    EntryLabels \cup ExitLabels \cup
    { << Word("NOISE") >>, << Word("noise") >>, << Word("NOISE"), Word("now") >>,
      << Other("buy!"), Word("now") >>, << Word("ETH"), Word("close") >> }

ParserInit ==
    /\ channel = {}
    /\ nextId = 1
    /\ preStart = {}
    /\ nDeletes = 0
    /\ seeded = {}
    /\ messages = <<>>
    /\ pc = "parser"
    /\ processed_ids = {}
    /\ pending = <<>>
    /\ cur = 0
    /\ message_text = NoMessage
    /\ stages = {}
    /\ outcome = "none"
    /\ dispatched = <<>>
    /\ cancelSent = FALSE
    /\ in_flight = {}
    /\ handler_stats = HandlerStats
    /\ min_order_qty_cache = EmptyCache
    /\ ai_response = NoLabel
    /\ signal = NoSignal
    /\ responses = NoResponses
    /\ calls = <<>>
    /\ connection_state = "none"
    /\ mon = NoMonitor
    /\ router_client = "none"
    /\ started = <<>>
    /\ wcalls = 0
    /\ recorded = <<>>
    /\ wlast = NoRun

\* signal = parse(ai_response)
ParseLabel ==
    /\ pc = "parser"
    /\ \E label \in ParserLabels :
         /\ ai_response' = label
         /\ signal' = parse(label)
    /\ pc' = "parsed"
    /\ UNCHANGED <<chanVars, pollVars, responses, calls, wrapVars, mainVars, monVars,
                   min_order_qty_cache>>

\* the next answer is awaited
ParseReturn ==
    /\ pc = "parsed"
    /\ pc' = "parser"
    /\ ai_response' = NoLabel
    /\ signal' = NoSignal
    /\ UNCHANGED <<chanVars, pollVars, responses, calls, wrapVars, mainVars, monVars,
                   min_order_qty_cache>>

ParserNext ==
    \/ ParseLabel
    \/ ParseReturn

ParserSpec == ParserInit /\ [][ParserNext]_vars

(* ---------------------------------------------------------------------- *)
(* Properties                                                              *)
(* ---------------------------------------------------------------------- *)
Known(sig) == SymbolFull(sig.asset) \in DOMAIN min_order_qty_cache

\* C1: no identifier is passed to _handle_message twice over the run, and
\* when a poll cycle is complete every identifier its fetch returned, unless
\* seeded at startup, has been passed to it exactly once
C1_DispatchedExactlyOnce ==
    /\ \A m \in Range(dispatched) : Count(dispatched, m) = 1
    /\ pc = "sleep" => \A m \in Range(messages) \ seeded : Count(dispatched, m) = 1

\* a cycle is complete whose fetch returned a new message together with
\* messages dispatched in earlier cycles
C1_Witness ==
    /\ pc = "sleep"
    /\ Len(dispatched) >= 2
    /\ Range(dispatched) \subseteq Range(messages)
    /\ Range(messages) \cap seeded # {}
    /\ Len(NewMessages(messages, processed_ids \ {dispatched[Len(dispatched)]})) = 1

\* C2: no message that existed before the process started is dispatched
C2_PreStartNeverDispatched == Range(dispatched) \cap preStart = {}

\* C3: whenever classification is invoked for a message, its identifier is
\* already in processed_ids
C3_InsertedBeforeClassify ==
    ("classify" \in stages) => (cur # 0 /\ cur \in processed_ids)

\* classification of the second new message of a cycle is in progress
C3_Witness ==
    /\ pc = "classify"
    /\ Len(dispatched) >= 2
    /\ cur = dispatched[Len(dispatched)]

\* C4: the identifiers passed to _handle_message over the whole run are
\* strictly increasing
C4_DispatchAscending ==
    \A i \in 1..Len(dispatched) : \A j \in 1..Len(dispatched) :
        i < j => dispatched[i] < dispatched[j]

\* C5: an exception in a message's run never ends the polling task (only a
\* cancellation does); the run returns to the for loop with the rest of
\* new_messages intact, and a failed fetch leads to the next cycle
C5_FailureKeepsLoopRunning ==
    /\ [](pc # "crashed" /\ (pc = "cancelled" => cancelSent))
    /\ [][(pc = "classify" /\ pc' # pc /\ ~cancelSent')
            => (pc' = "returned" /\ pending' = pending)]_vars
    /\ [][(pc = "fetch" /\ pc' # pc /\ ~cancelSent')
            => pc' \in {"sleep", "dispatch"}]_vars

\* a run has failed in classification while new messages of the same cycle
\* are still to be dispatched
C5_Witness ==
    /\ pc = "returned"
    /\ outcome = "failed"
    /\ pending # <<>>

\* C6: every completed pipeline run adds one to total_processed and one to
\* either successful or failed
C6_RunsAreCounted ==
    [][(pc # "returned" /\ pc' = "returned")
         => /\ handler_stats'.total_processed = handler_stats.total_processed + 1
            /\ handler_stats'.successful + handler_stats'.failed
                 = handler_stats.successful + handler_stats.failed + 1]_vars

\* C7: safe_handler records a success when the handler returns and a
\* failure when it raises an Exception, and returns normally in both cases
C7_WrapperRecords ==
    [][(wcalls' = wcalls + 1 /\ wlast'.handler # Cancelled)
         => /\ wlast'.raises = NoExc
            /\ handler_stats'.total_processed = handler_stats.total_processed + 1
            /\ IF wlast'.handler = NoExc
               THEN /\ handler_stats'.successful = handler_stats.successful + 1
                    /\ handler_stats'.failed = handler_stats.failed
                    /\ handler_stats'.consecutive_failures = 0
               ELSE /\ handler_stats'.successful = handler_stats.successful
                    /\ handler_stats'.failed = handler_stats.failed + 1
                    /\ handler_stats'.consecutive_failures
                         = handler_stats.consecutive_failures + 1]_vars

\* the wrapper has swallowed a failure after failures and a success
C7_Witness ==
    /\ wlast.handler = Exc
    /\ wlast.raises = NoExc
    /\ handler_stats.successful >= 1
    /\ handler_stats.consecutive_failures >= 2

\* C8: a delivered cancellation ends the polling task, whatever await it
\* was suspended on; afterwards no message is dispatched and the counters of
\* the wrapper do not change; process_signal and the wrapper hand a
\* cancellation on unchanged
C8_CancellationPropagates ==
    /\ [](cancelSent => pc = "cancelled")
    /\ [](ProcessSignalExcept(Cancelled) = Cancelled)
    /\ [](safe_handler(handler_stats, Cancelled)
            = [stats |-> handler_stats, raises |-> Cancelled])
    /\ [][cancelSent'
            => (dispatched' = dispatched /\ handler_stats' = handler_stats)]_vars

\* the task was cancelled while classification of a message was awaited and
\* other new messages were still to be dispatched
C8_Witness ==
    /\ cancelSent
    /\ pc = "cancelled"
    /\ "classify" \in stages
    /\ pending # <<>>

\* C9: an entry or exit signal for an asset whose symbol is not in the cache
\* makes no exchange call and changes nothing but the loop position
C9_UnknownAssetNoCalls ==
    /\ []((signal # NoSignal /\ ~Known(signal)) => calls = <<>>)
    /\ [][(pc = "classify" /\ signal' # NoSignal /\ ~Known(signal)')
            => UNCHANGED <<min_order_qty_cache, processed_ids, handler_stats,
                           dispatched, pending, cur>>]_vars

\* an entry for an unknown asset was processed
C9_Witness ==
    /\ signal # NoSignal
    /\ signal.type = "entry"
    /\ ~Known(signal)
    /\ pc = "returned"

\* the exchange reported no position of positive size for the exit signal
NoOpenPosition ==
    /\ signal # NoSignal
    /\ signal.type = "exit"
    /\ Known(signal)
    /\ pc = "returned"
    /\ responses.positions.ok
    /\ \A i \in 1..Len(responses.positions.list) :
         responses.positions.list[i].size.m = 0

\* C10 as stated: an exit for a known symbol without open position makes
\* no exchange call
C10_NoPositionZeroCalls == NoOpenPosition => calls = <<>>

\* C10 amended: such an exit makes the position query and nothing else
C10_NoPositionOnlyQuery ==
    NoOpenPosition => (Len(calls) = 1 /\ calls[1].op = "get_positions")

\* the exchange answered the position query with a record of size 0
C10_Witness ==
    /\ NoOpenPosition
    /\ responses.positions.list # <<>>
    /\ pc = "returned"

\* C11: process_signal returns normally for every signal and every
\* combination of exchange answers, and a label that parses to no signal
\* makes no exchange call
C11_ProcessSignalFailsClosed ==
    /\ ("process_signal" \in stages) => (pc = "returned" /\ outcome = "ok")
    /\ (signal = NoSignal) => (calls = <<>>)

\* an exit was processed whose position record raised outside the guarded
\* exchange calls
C11_Witness ==
    /\ "process_signal" \in stages
    /\ signal.type = "exit"
    /\ Len(calls) = 1
    /\ responses.positions.list # <<>>
    /\ responses.positions.list[1].side = Missing

\* the number of calls of an exchange operation in the current run
OpCount(op) == Cardinality({i \in 1..Len(calls) : calls[i].op = op})

\* C12: processing one signal calls each exchange operation at most once:
\* set_leverage, the price query, the position query, and the order
\* request that opens or closes
C12_EachOperationAtMostOnce ==
    /\ \A i \in 1..Len(calls) :
         calls[i].op \in {"set_leverage", "get_tickers", "get_positions",
                          "place_order"}
    /\ OpCount("set_leverage") <= 1
    /\ OpCount("get_tickers") <= 1
    /\ OpCount("get_positions") <= 1
    /\ OpCount("place_order") <= 1

\* the close request of an exit was refused by the exchange
C12_Witness ==
    /\ pc = "returned"
    /\ signal.type = "exit"
    /\ OpCount("place_order") = 1
    /\ responses.order = "fail"

\* C13: when set_leverage is answered with error 110043 the entry goes on
\* to the price query and, the quantity computed, to the order; with any
\* other set_leverage error the entry ends without price query and order
C13_AlreadySetIsSuccess ==
    (pc = "returned" /\ signal.type = "entry" /\ Known(signal)) =>
        /\ responses.lev = "110043" =>
              /\ Len(calls) >= 2
              /\ calls[1].op = "set_leverage"
              /\ calls[2].op = "get_tickers"
              /\ (responses.prices.ok /\ responses.prices.last.m # 0) =>
                    (Len(calls) = 3 /\ calls[3].op = "place_order")
        /\ responses.lev = "error" =>
              (Len(calls) = 1 /\ calls[1].op = "set_leverage")

\* an order was placed after set_leverage was answered with error 110043
C13_Witness ==
    /\ pc = "returned"
    /\ signal.type = "entry"
    /\ responses.lev = "110043"
    /\ OpCount("place_order") = 1

\* the minimum order quantity the exchange declares for a symbol
Declared(sym) ==
    LET all == UNION {Range(Catalog[p].list) : p \in 1..Len(Catalog)}
    IN  (CHOOSE inst \in all : inst.symbol = sym).minOrderQty

\* C14: the number of digits an order quantity is rounded to is the number
\* of fractional digits of the declared minOrderQty of the instrument:
\* 3 for "0.001", 0 for "1"
C14_RoundingDigitsAsDeclared ==
    \A sym \in DOMAIN min_order_qty_cache :
        DecimalPlaces(min_order_qty_cache[sym]) = Declared(sym).e

\* the answer is "<ASSET> close <PCT>%" with or without text after it
PercentageLabel(r) ==
    /\ Len(r) >= 3
    /\ r[1].t = "word"
    /\ r[2] = Word("close")
    /\ r[3].t = "pct"

\* C15: the percentage of every percentage ExitSignal is in (0, 100], and
\* an answer whose percentage is 0 or above 100 gives no signal: neither a
\* clamped percentage nor an exit of type all
C15_PercentageInRange ==
    /\ (signal.type = "exit" /\ signal.exit_type = "percentage") =>
          /\ signal.percentage.k = "fin"
          /\ signal.percentage.m > 0
          /\ signal.percentage.m <= 100 * Pow10(signal.percentage.e)
    /\ (pc = "parsed" /\ PercentageLabel(ai_response)
          /\ (\/ ai_response[3].num.m = 0
              \/ ai_response[3].num.m > 100 * Pow10(ai_response[3].num.e))) =>
          signal = NoSignal

\* "ETH close 150%" was parsed
C15_Witness ==
    /\ pc = "parsed"
    /\ ai_response = << Word("ETH"), Word("close"), Pct(Dec(150, 0)) >>
    /\ signal = NoSignal

\* C16: leverage, tp and sl of every EntrySignal are finite and strictly
\* positive
C16_EntryFieldsFinitePositive ==
    (signal.type = "entry") =>
        \A v \in {signal.leverage, signal.tp, signal.sl} :
            v.k = "fin" /\ v.m > 0

\* the whole answer is "<ASSET> (Long|Short) Leverage:<NUM>[x] TP:<NUM>
\* SL:<NUM>"
EntryGrammar(r) == Len(r) = 5 /\ EntryMatches(r)

\* the whole answer is "<ASSET> close (all|<PCT>%)"
ExitGrammar(r) ==
    /\ Len(r) = 3
    /\ r[1].t = "word"
    /\ r[2] = Word("close")
    /\ (r[3] = Word("all") \/ r[3].t = "pct")

\* C17: parse gives no signal for the answer "NOISE" and for every answer
\* that is neither an entry nor an exit of the grammar, an entry or exit
\* followed by more text included
C17_OutsideGrammarIsNone ==
    (pc = "parsed") =>
        /\ (ai_response = << Word("NOISE") >>) => (signal = NoSignal)
        /\ (~EntryGrammar(ai_response) /\ ~ExitGrammar(ai_response)) =>
              (signal = NoSignal)

\* C18: for a message without text _handle_message returns at once: no
\* classification, no parse and no exchange call is made for it, and its
\* identifier is in processed_ids
C18_NoTextSkipped ==
    (message_text = "") =>
        /\ pc = "returned"
        /\ stages = {}
        /\ ai_response = NoLabel
        /\ signal = NoSignal
        /\ calls = <<>>
        /\ cur \in processed_ids
        /\ Count(dispatched, cur) = 1

\* a message without text was skipped while other new messages of the
\* cycle are still to be dispatched
C18_Witness ==
    /\ message_text = ""
    /\ outcome = "skipped"
    /\ cur # 0
    /\ pending # <<>>

\* the operations of the exchange calls of the current run, in order
Ops == [i \in 1..Len(calls) |-> calls[i].op]

\* C19: an entry calls set_leverage, then the price query, then the order
\* request, and stops at the first step that fails: after a failed
\* set_leverage nothing follows, after a failed price query or quantity
\* computation no order and no further set_leverage follows
C19_EntryStepOrder ==
    (pc = "returned" /\ signal.type = "entry") =>
        /\ Ops = SubSeq(<< "set_leverage", "get_tickers", "place_order" >>,
                        1, Len(calls))
        /\ (responses.lev = "error") => (Len(calls) = 1)
        /\ (Len(calls) >= 2 /\ ~responses.prices.ok) => (Len(calls) = 2)
        /\ (Len(calls) >= 2 /\ responses.prices.ok
              /\ calculate_qty(responses.prices.last, signal.leverage) = NoQty) =>
              (Len(calls) = 2)

\* the leverage was set and the quantity could not be computed from the
\* price the exchange reported
C19_Witness ==
    /\ pc = "returned"
    /\ signal.type = "entry"
    /\ responses.lev = "ok"
    /\ responses.prices.ok
    /\ Len(calls) = 2

\* C20: when classify raises, the run of the message ends: parse and
\* process_signal are not called and no exchange call is made; nothing but
\* the position of the loop changes, and the loop goes on with the next new
\* message of the cycle
C20_ClassifyFailureEndsRun ==
    /\ []((pc = "returned" /\ outcome = "failed") =>
            /\ stages = {"classify"}
            /\ ai_response = NoLabel
            /\ signal = NoSignal
            /\ calls = <<>>)
    /\ [][(pc = "classify" /\ outcome' = "failed") =>
            /\ pc' = "returned"
            /\ UNCHANGED <<pending, processed_ids, dispatched, handler_stats,
                           min_order_qty_cache>>]_vars
    /\ [][(pc = "returned" /\ outcome = "failed" /\ pending # <<>>) =>
            pc' = "dispatch"]_vars

\* classification of the second message dispatched has failed
C20_Witness ==
    /\ pc = "returned"
    /\ outcome = "failed"
    /\ Len(dispatched) >= 2
    /\ cur = dispatched[Len(dispatched)]
    /\ stages = {"classify"}

\* the position records of positive size in the answer to the position
\* query of the current run
OpenPositions ==
    SelectSeq(responses.positions.list, LAMBDA p : p.size.m > 0)

\* an exit for a known symbol was processed and the exchange reported an
\* open position
ExitWithPosition ==
    /\ pc = "returned"
    /\ signal.type = "exit"
    /\ Known(signal)
    /\ responses.positions.ok
    /\ OpenPositions # <<>>
    /\ OpenPositions[1].side \in {"Buy", "Sell"}

\* size for an exit of type all, size * percentage / 100 otherwise
ExitQuantity(size) ==
    IF signal.exit_type = "all" THEN Ratio(size.m, Pow10(size.e))
    ELSE Ratio(size.m * signal.percentage.m,
               100 * Pow10(size.e + signal.percentage.e))

\* C21: an exit on a symbol with an open position places exactly one order:
\* reduce-only, on the side opposite to the first open position, for the
\* rounded size (type all) or the rounded size * percentage / 100
C21_ExitOrder ==
    ExitWithPosition =>
        /\ Len(calls) = 2
        /\ calls[1].op = "get_positions"
        /\ calls[2].op = "place_order"
        /\ calls[2].reduceOnly
        /\ calls[2].symbol = SymbolFull(signal.asset)
        /\ (OpenPositions[1].side = "Buy") => (calls[2].side = "Sell")
        /\ (OpenPositions[1].side = "Sell") => (calls[2].side = "Buy")
        /\ calls[2].qty =
              round_quantity(ExitQuantity(OpenPositions[1].size),
                             min_order_qty_cache[SymbolFull(signal.asset)])

\* half of a short position was closed; the answer of the exchange listed
\* an empty position record first
C21_Witness ==
    /\ ExitWithPosition
    /\ signal.exit_type = "percentage"
    /\ Len(responses.positions.list) = 2
    /\ calls[2].side = "Buy"
    /\ calls[2].qty = Dec(15, 1)

\* an entry for a known symbol was processed, its leverage and price steps
\* succeeded and the quantity could be computed
EntryStepsSucceeded ==
    /\ pc = "returned"
    /\ signal.type = "entry"
    /\ Known(signal)
    /\ responses.lev \in {"ok", "110043"}
    /\ responses.prices.ok
    /\ responses.prices.last.m # 0

\* (BALANCE * AMOUNT / 100) * leverage / price
EntryQuantity(leverage, price) ==
    Ratio(BALANCE * AMOUNT * leverage.m * Pow10(price.e),
          100 * Pow10(leverage.e) * price.m)

\* C22: such an entry places exactly one order: Buy for Long and Sell for
\* Short, with tp and sl of the signal, for the rounded quantity
\* (BALANCE * AMOUNT / 100) * leverage / last price
C22_EntryOrder ==
    EntryStepsSucceeded =>
        /\ Len(calls) = 3
        /\ calls[3].op = "place_order"
        /\ ~calls[3].reduceOnly
        /\ calls[3].symbol = SymbolFull(signal.asset)
        /\ (signal.direction = "Long") => (calls[3].side = "Buy")
        /\ (signal.direction = "Short") => (calls[3].side = "Sell")
        /\ calls[3].tp = signal.tp
        /\ calls[3].sl = signal.sl
        /\ calls[3].qty =
              round_quantity(EntryQuantity(signal.leverage, responses.prices.last),
                             min_order_qty_cache[SymbolFull(signal.asset)])

\* a short entry with leverage 2.5 at last price 0.3 was sized
C22_Witness ==
    /\ EntryStepsSucceeded
    /\ signal.direction = "Short"
    /\ responses.prices.last = Dec(3, 1)
    /\ calls[3].side = "Sell"
    /\ calls[3].qty = Dec(8333, 1)

\* C23: a pass of the monitor stores its sample, logs a transition exactly
\* when a state was stored before and the sample differs from it, and no
\* step of the monitor task changes processed_ids or the position or data
\* of the polling task
C23_MonitorObservesOnly ==
    /\ [][(mon.running /\ mon'.running
              /\ (mon' # mon \/ connection_state' # connection_state)) =>
            /\ mon'.sample \in {"up", "down"}
            /\ connection_state' = mon'.sample
            /\ (mon'.event # "none") <=>
                  (connection_state # "none" /\ connection_state # mon'.sample)]_vars
    /\ [][(mon.running /\ (mon' # mon \/ connection_state' # connection_state)) =>
            UNCHANGED <<pc, pollVars, runVars, chanVars, min_order_qty_cache>>]_vars

\* the monitor logged the loss of the connection while the classification
\* of a message was awaited
C23_Witness ==
    /\ mon.running
    /\ mon.event = "lost"
    /\ connection_state = "down"
    /\ pc = "classify"

\* C24: min_order_qty_cache is assigned by init_cache only: no step after
\* it, and so no run of process_signal, changes the cache
C24_CacheReadOnly ==
    [][(pc # "init_cache") => (min_order_qty_cache' = min_order_qty_cache)]_vars

\* the second signal of the run was processed and its order was refused
C24_Witness ==
    /\ pc = "returned"
    /\ Len(dispatched) >= 2
    /\ signal.type = "entry"
    /\ OpCount("place_order") = 1
    /\ responses.order = "fail"
    /\ min_order_qty_cache # EmptyCache

\* the instruments of all pages of the catalog that are quoted in USDT,
\* perpetual, and declare a minimum order quantity
Tradable ==
    LET all == UNION {Range(Catalog[p].list) : p \in 1..Len(Catalog)}
    IN  {inst \in all : /\ inst.quoteCoin = "USDT"
                        /\ inst.contractType = "LinearPerpetual"
                        /\ inst.minOrderQty # NoNumber}

\* C25: once loaded, the cache holds exactly the tradable instruments of
\* all pages, each with its declared quantity as a float; when a page
\* request fails loading raises, the cache stays empty, and with an empty
\* cache the process never polls
C25_CacheLoading ==
    /\ (pc \notin {"init_client", "init_cache", "exited"}) =>
          /\ DOMAIN min_order_qty_cache = {inst.symbol : inst \in Tradable}
          /\ \A inst \in Tradable :
                min_order_qty_cache[inst.symbol] = float(inst.minOrderQty)
    /\ \A failAt \in 1..Len(Catalog) :
          get_all_min_order_qty(EmptyCache, 1, failAt).raises = Exc
    /\ (min_order_qty_cache = EmptyCache) =>
          (pc \in {"init_client", "init_cache", "exited"})
    /\ (pc = "exited" /\ min_order_qty_cache = EmptyCache) =>
          (processed_ids = {} /\ dispatched = <<>>)

\* the process polls with the instruments of both pages in the cache
C25_Witness ==
    /\ pc = "fetch"
    /\ <<"BTC", "USDT">> \in DOMAIN min_order_qty_cache
    /\ <<"DOGE", "USDT">> \in DOMAIN min_order_qty_cache
    /\ Cardinality(DOMAIN min_order_qty_cache) = 2

\* C26: at most one message is in the pipeline at any time, and a run of
\* _handle_message begins only when no earlier run is still under way
C26_PipelineSerialized ==
    [][/\ Cardinality(in_flight') <= 1
       /\ (pc' = "classify") => (in_flight' = {cur'})
       /\ (dispatched' # dispatched) => (in_flight = {})]_vars

\* the second message of a cycle is being classified, the run of the
\* first one has ended
C26_Witness ==
    /\ Len(dispatched) >= 2
    /\ in_flight = {dispatched[Len(dispatched)]}
    /\ dispatched[Len(dispatched) - 1] \in Range(messages)
    /\ dispatched[Len(dispatched) - 1] \notin in_flight

\* C27: the quantity of an exit order is strictly positive and not larger
\* than the size of the open position (qty = m / 10^e on both sides)
C27_ExitQuantityInRange ==
    ExitWithPosition =>
        /\ Len(calls) = 2
        /\ calls[2].qty.m > 0
        /\ calls[2].qty.m * Pow10(OpenPositions[1].size.e)
              <= OpenPositions[1].size.m * Pow10(calls[2].qty.e)

\* C28: a cycle whose fetch raises (not a cancellation) changes neither
\* processed_ids nor the dispatched messages and the loop goes on to the
\* next sleep; processed_ids never loses an identifier; after a cycle that
\* fetched a window, every message of the window has been seeded or
\* dispatched. (With a message in the channel, get_messages returns a
\* window that is not empty, so the fetch step that leaves messages empty
\* is the one that raised.)
C28_FailedFetchSkipsCycle ==
    [][/\ (/\ pc = "fetch"
           /\ pc' # pc
           /\ cancelSent' = cancelSent
           /\ channel # {}
           /\ messages' = <<>>)
          => (/\ pc' = "sleep"
              /\ processed_ids' = processed_ids
              /\ dispatched' = dispatched
              /\ calls' = calls)
       /\ processed_ids \subseteq processed_ids'
       /\ (pc' = "sleep" /\ messages' # <<>>)
          => (Range(messages') \subseteq seeded' \cup Range(dispatched'))]_vars

\* the fetch of a cycle has failed after earlier cycles had dispatched a
\* message that is still in the channel, and a message not yet seen waits
\* in the channel for the next cycle
C28_Witness ==
    /\ pc = "sleep"
    /\ messages = <<>>
    /\ Range(dispatched) \cap channel # {}
    /\ channel \ processed_ids # {}

\* the positions of the polling task
PollingPositions ==
    {"sleep", "fetch", "dispatch", "classify", "returned", "cancelled", "crashed"}

\* C29: the polling task and the monitor exist only after the classifier
\* client was initialised, the cache loaded and processed_ids seeded, in
\* this order; when a startup step has failed no task is created, no
\* message is dispatched, no exchange call is made, and it stays so
C29_StartupOrdered ==
    /\ []((pc \in PollingPositions \/ mon.running) =>
            /\ started = <<"client", "cache", "seed", "tasks">>
            /\ router_client = "ready"
            /\ min_order_qty_cache = get_all_min_order_qty(EmptyCache, 1, 0).value
            /\ seeded \subseteq processed_ids)
    /\ []((pc = "exited") =>
            /\ "tasks" \notin Range(started)
            /\ ~mon.running
            /\ processed_ids = {}
            /\ dispatched = <<>>
            /\ calls = <<>>)
    /\ [][(pc = "exited") => (pc' = "exited")]_vars

\* seeding has failed after the client was initialised and the cache
\* loaded, while the channel holds messages
C29_Witness ==
    /\ pc = "exited"
    /\ started = <<"client", "cache">>
    /\ min_order_qty_cache # EmptyCache
    /\ channel # {}

\* the number of failures recorded since the most recent success
RECURSIVE TrailingFailures(_)
TrailingFailures(h) ==
    IF h = <<>> \/ h[Len(h)] = "success" THEN 0
    ELSE 1 + TrailingFailures(SubSeq(h, 1, Len(h) - 1))

\* C30: after any sequence of record_success and record_failure calls the
\* total is the sum of the successes and the failures, consecutive_failures
\* lies between 0 and failed and is the number of failures recorded since
\* the most recent success
C30_CountersConsistent ==
    /\ handler_stats.total_processed
          = handler_stats.successful + handler_stats.failed
    /\ handler_stats.total_processed = Len(recorded)
    /\ 0 <= handler_stats.consecutive_failures
    /\ handler_stats.consecutive_failures <= handler_stats.failed
    /\ handler_stats.consecutive_failures = TrailingFailures(recorded)

\* a failure, a success, then two failures were recorded
C30_Witness ==
    /\ recorded = <<"failure", "success", "failure", "failure">>
    /\ handler_stats.failed = 3
    /\ handler_stats.consecutive_failures = 2

====
